---- MODULE Spec2Model ----
(***************************************************************************)
(* Landalytics backend (src/main.py): the sliding-window RateLimiter, the  *)
(* shared Jina throttle, the two-phase result stream of analyze_site, the  *)
(* content fetch, signal extraction, the scoring functions and the goal    *)
(* weighting.                                                              *)
(*                                                                         *)
(* Time is counted in ticks of 1/TicksPerSecond second, so that the float  *)
(* clock time.time() can take whole-second and fractional values alike.    *)
(***************************************************************************)
EXTENDS Integers, Sequences, FiniteSets, TLC

\* ---------------------------------------------------------------- bounds
TicksPerSecond == 2
MaxTime == 8
MaxCalls == 4
MaxCap == 2
MaxWindow == 2
NumStreams == 2
NumRequests == 2
ReqMaxTime == 6
AdmitMaxTime == 3
JINA_MIN_INTERVAL == 3
MaxImages == 10
MaxTitle == 130
MaxPageSpeed == 100
THIN_CONTENT == 200

Max(a, b) == IF a >= b THEN a ELSE b
Min(a, b) == IF a <= b THEN a ELSE b

Keys == {"ip1", "ip2"}
CapValues == 0..MaxCap
WindowValues == 1..MaxWindow
Streams == 1..NumStreams
Requests == 1..NumRequests

VARIABLES
    now,            \* time.time(), in ticks
    max_requests,   \* RateLimiter.max_requests
    window,         \* RateLimiter.window, in seconds
    store,          \* RateLimiter._store : key -> list of timestamps
    calls,          \* per key, the log of is_allowed calls and their outcomes
    spc,            \* per stream() generator, its position
    ai_res,         \* per stream() generator, the local ai_res
    trace,          \* per stream() generator, the records yielded and the
                    \* generator calls made, in order
    groq_client,    \* whether the Groq client is configured
    rpc,            \* per request, the position of its analyze_site handler
    admit,          \* per request, the outcome of its admission check and
                    \* the Retry-After header of its answer ("" when none)
    tpc,            \* per request, the position of its scrape_page job
    wake,           \* per request, the time its time.sleep ends
    ppc,            \* per request, the position of its get_pagespeed_score job
    jina_last_call, \* the global _jina_last_call, in ticks
    jina_gets,      \* the times at which the GET of scrape_via_jina was issued
    url,            \* body.url, as the validator passed it on
    goal,           \* body.goal
    page_speed,     \* the result of get_pagespeed_score
    fpc,            \* the position of a scrape_page call
    fetch_log,      \* the retrievals a scrape_page call has made, in order
    jina_data,      \* the first result of scrape_page
    raw_html,       \* the second result of scrape_page
    sig,            \* the PageSignals
    used,           \* the branch of extract_signals that built sig
    fn,             \* the function called last
    ret,            \* what the scoring function called last returned
    scores,         \* the scores mapping before apply_goal_weights
    weighted,       \* the mapping apply_goal_weights returned
    mpc,            \* the position of analyze_site after the gather
    metrics         \* the "metrics" record stream() yields first

rlVars == <<now, max_requests, window, store, calls>>
streamVars == <<spc, ai_res, trace>>
reqVars == <<groq_client, rpc, admit, tpc, wake, ppc, jina_last_call, jina_gets>>
pageVars == <<url, goal, page_speed, fpc, fetch_log, jina_data, raw_html, sig,
              used, fn, ret, scores, weighted, mpc, metrics>>
vars == <<now, max_requests, window, store, calls, spc, ai_res, trace,
          groq_client, rpc, admit, tpc, wake, ppc, jina_last_call, jina_gets,
          url, goal, page_speed, fpc, fetch_log, jina_data, raw_html, sig,
          used, fn, ret, scores, weighted, mpc, metrics>>

\* ------------------------------------------------------------ RateLimiter
WindowTicks == window * TicksPerSecond

\* int(x) of Python for x = d / TicksPerSecond: truncation toward zero
IntTrunc(d) == IF d >= 0 THEN d \div TicksPerSecond
               ELSE 0 - ((0 - d) \div TicksPerSecond)

\* [t for t in timestamps if t > window_start]
EvictInclusive(ts, t) == SelectSeq(ts, LAMBDA x : x >= t - WindowTicks)
Evict(ts, t) == SelectSeq(ts, LAMBDA x : x > t - WindowTicks)

\* len(self._store[key]) >= self.max_requests
CapReachedOffByOne(ts) == Len(ts) > max_requests
CapReached(ts) == Len(ts) >= max_requests

\* int(self._store[key][0] + self.window - now) + 1
RetryAfterNoPlusOne(ts, t) == IntTrunc(ts[1] + WindowTicks - t)
RetryAfter(ts, t) == IntTrunc(ts[1] + WindowTicks - t) + 1

\* The outcome of is_allowed on a key whose stored list is ts, at time t.
\* With the cap reached and nothing stored, self._store[key][0] raises
\* IndexError after the evicted list has been stored.
IsAllowedOutcome(ts, t) ==
    LET surv == Evict(ts, t) IN
    IF CapReached(surv)
    THEN IF Len(surv) = 0
         THEN [kind |-> "raise", allowed |-> FALSE, retry_after |-> 0,
               stored |-> surv]
         ELSE [kind |-> "return", allowed |-> FALSE,
               retry_after |-> RetryAfter(surv, t), stored |-> surv]
    ELSE [kind |-> "return", allowed |-> TRUE, retry_after |-> 0,
          stored |-> Append(surv, t)]

RECURSIVE SumLen(_, _)
SumLen(f, S) == IF S = {} THEN 0
                ELSE LET k == CHOOSE x \in S : TRUE
                     IN Len(f[k]) + SumLen(f, S \ {k})
TotalCalls == SumLen(calls, Keys)

\* One call rate_limiter.is_allowed(key)
IsAllowedStep(key) ==
    LET out == IsAllowedOutcome(store[key], now) IN
    /\ TotalCalls < MaxCalls
    /\ store' = [store EXCEPT ![key] = out.stored]
    /\ calls' = [calls EXCEPT ![key] = Append(@,
                    [at |-> now, kind |-> out.kind, allowed |-> out.allowed,
                     retry_after |-> out.retry_after])]

is_allowed == \E key \in Keys :
    /\ IsAllowedStep(key)
    /\ UNCHANGED <<now, max_requests, window>>
    /\ UNCHANGED streamVars
    /\ UNCHANGED reqVars
    /\ UNCHANGED pageVars

\* The clock advances (non-decreasing time.time()).
Tick ==
    /\ now < MaxTime
    /\ now' = now + 1
    /\ UNCHANGED <<max_requests, window, store, calls>>
    /\ UNCHANGED streamVars
    /\ UNCHANGED reqVars
    /\ UNCHANGED pageVars

\* ------------------------------------------------- analyze_site.stream
\* What one call of the external generator through run_groq can do: raise
\* (API error, missing content), return text json.loads rejects, or return
\* text that parses to a JSON value.  A value is described by what the code
\* looks at: its truthiness, whether it is a dict, and the "type" key it
\* carries, if any ("" when absent).
Value(truthy, isdict, conforming, typekey) ==
    [kind |-> "value", truthy |-> truthy, isdict |-> isdict,
     conforming |-> conforming, typekey |-> typekey]
NoneValue == Value(FALSE, FALSE, FALSE, "")
RaisesError == [kind |-> "raise", truthy |-> FALSE, isdict |-> FALSE,
                conforming |-> FALSE, typekey |-> ""]
Unparseable == [kind |-> "unparseable", truthy |-> FALSE, isdict |-> FALSE,
                conforming |-> FALSE, typekey |-> ""]
EmptyObject == Value(FALSE, TRUE, FALSE, "")
FalsyNonObject == NoneValue
TruthyNonObject == Value(TRUE, FALSE, FALSE, "")
ConformingObject == Value(TRUE, TRUE, TRUE, "")
OtherObject == Value(TRUE, TRUE, FALSE, "")
ObjectTypedMetrics == Value(TRUE, TRUE, FALSE, "metrics")
ObjectTypedError == Value(TRUE, TRUE, FALSE, "error")

GroqOutcomes == {RaisesError, Unparseable, EmptyObject, FalsyNonObject,
                 TruthyNonObject, ConformingObject, OtherObject,
                 ObjectTypedMetrics, ObjectTypedError}

\* The exception run_groq raises for an outcome ("" when it returns)
Raised(o) == IF o.kind = "raise" THEN "APIError"
             ELSE IF o.kind = "unparseable" THEN "JSONDecodeError"
             ELSE ""

\* Attempt 1: except (json.JSONDecodeError, Exception)
Attempt1Catches(e) == e \in {"JSONDecodeError", "APIError", "TypeError"}
\* Attempt 2: except Exception
Attempt2Catches(e) == e \in {"JSONDecodeError", "APIError", "TypeError"}
\* Outermost handler of stream(): except Exception
OuterCatchesOnlyJson(e) == e = "JSONDecodeError"
OuterCatches(e) == e \in {"JSONDecodeError", "APIError", "TypeError"}

\* if not ai_res or not isinstance(ai_res, dict)
NeedsSecondAttemptAlways(v) == TRUE
NeedsSecondAttempt(v) == ~v.truthy \/ ~v.isdict

\* if ai_res:
NarrativeBranch(v) == v.truthy

\* {"type": "ai_narrative", **ai_res}: unpacking a non-mapping raises
\* TypeError ("" when the dict is built)
SpreadRaises(v) == IF v.isdict THEN "" ELSE "TypeError"
\* The "type" of the record built: a "type" key of ai_res replaces the
\* literal one
NarrativeType(v) == IF v.typekey = "" THEN "ai_narrative" ELSE v.typekey

Yield(type) == [ev |-> "yield", type |-> type, out |-> NoneValue]
GroqCall(o) == [ev |-> "groq", type |-> "", out |-> o]

\* An exception e reaches the outermost handler of stream(): it yields the
\* generic error record, or the exception leaves the generator.
OuterHandler(s, tr, e) ==
    IF OuterCatches(e)
    THEN /\ trace' = [trace EXCEPT ![s] = Append(tr, Yield("error"))]
         /\ spc' = [spc EXCEPT ![s] = "finished"]
    ELSE /\ trace' = [trace EXCEPT ![s] = tr]
         /\ spc' = [spc EXCEPT ![s] = "raised"]

\* Phase 1: yield the metrics record
stream_metrics(s) ==
    /\ spc[s] = "start"
    /\ trace' = [trace EXCEPT ![s] = Append(@, Yield("metrics"))]
    /\ spc' = [spc EXCEPT ![s] = "attempt1"]
    /\ UNCHANGED ai_res
    /\ UNCHANGED rlVars
    /\ UNCHANGED reqVars
    /\ UNCHANGED pageVars

\* Attempt 1: run_groq(prompt)
groq_attempt1(s) ==
    /\ spc[s] = "attempt1"
    /\ \E o \in GroqOutcomes :
        LET tr == Append(trace[s], GroqCall(o)) IN
        IF Raised(o) = ""
        THEN /\ ai_res' = [ai_res EXCEPT ![s] = o]
             /\ trace' = [trace EXCEPT ![s] = tr]
             /\ spc' = [spc EXCEPT ![s] =
                          IF NeedsSecondAttempt(o) THEN "attempt2" ELSE "emit"]
        ELSE IF Attempt1Catches(Raised(o))
        THEN /\ ai_res' = [ai_res EXCEPT ![s] = NoneValue]
             /\ trace' = [trace EXCEPT ![s] = tr]
             /\ spc' = [spc EXCEPT ![s] =
                          IF NeedsSecondAttempt(NoneValue)
                          THEN "attempt2" ELSE "emit"]
        ELSE /\ OuterHandler(s, tr, Raised(o))
             /\ UNCHANGED ai_res
    /\ UNCHANGED rlVars
    /\ UNCHANGED reqVars
    /\ UNCHANGED pageVars

\* Attempt 2: run_groq(strict_prompt)
groq_attempt2(s) ==
    /\ spc[s] = "attempt2"
    /\ \E o \in GroqOutcomes :
        LET tr == Append(trace[s], GroqCall(o)) IN
        IF Raised(o) = ""
        THEN /\ ai_res' = [ai_res EXCEPT ![s] = o]
             /\ trace' = [trace EXCEPT ![s] = tr]
             /\ spc' = [spc EXCEPT ![s] = "emit"]
        ELSE IF Attempt2Catches(Raised(o))
        THEN /\ ai_res' = [ai_res EXCEPT ![s] = NoneValue]
             /\ trace' = [trace EXCEPT ![s] = tr]
             /\ spc' = [spc EXCEPT ![s] = "emit"]
        ELSE /\ OuterHandler(s, tr, Raised(o))
             /\ UNCHANGED ai_res
    /\ UNCHANGED rlVars
    /\ UNCHANGED reqVars
    /\ UNCHANGED pageVars

\* Phase 2: yield the narrative record or the error record
stream_narrative(s) ==
    /\ spc[s] = "emit"
    /\ IF NarrativeBranch(ai_res[s])
       THEN IF SpreadRaises(ai_res[s]) = ""
            THEN /\ trace' = [trace EXCEPT ![s] =
                                Append(@, Yield(NarrativeType(ai_res[s])))]
                 /\ spc' = [spc EXCEPT ![s] = "finished"]
            ELSE OuterHandler(s, trace[s], SpreadRaises(ai_res[s]))
       ELSE /\ trace' = [trace EXCEPT ![s] = Append(@, Yield("error"))]
            /\ spc' = [spc EXCEPT ![s] = "finished"]
    /\ UNCHANGED ai_res
    /\ UNCHANGED rlVars
    /\ UNCHANGED reqVars
    /\ UNCHANGED pageVars

StreamNext == \E s \in Streams :
    \/ stream_metrics(s)
    \/ groq_attempt1(s)
    \/ groq_attempt2(s)
    \/ stream_narrative(s)

\* ------------------------------------------------------- analyze_site
\* The handler runs on the event loop: from its entry to the await of
\* asyncio.gather nothing else of the loop runs.  The two jobs handed to
\* run_in_executor run on pool threads, concurrently with each other, with
\* the jobs of other requests and with the loop.
NoAdmission == [key |-> "", at |-> 0, kind |-> "none", allowed |-> FALSE,
                retry_after |-> 0, header |-> ""]
JinaIntervalTicks == JINA_MIN_INTERVAL * TicksPerSecond

\* The list is_allowed leaves in self._store[key]
StoredAfterLosesAdmission(ts, t) == Evict(ts, t)
StoredAfter(ts, t) == IsAllowedOutcome(ts, t).stored

\* headers={"Retry-After": str(retry_after)} of the 429 answer
RetryAfterHeaderOfWindow(o) == ToString(window)
RetryAfterHeader(o) == ToString(o.retry_after)

\* Entry of analyze_site up to the await: admission check, the 429 answer,
\* the Groq guard, and the submission of both executor jobs.
analyze_site_begin(r) ==
    /\ rpc[r] = "new"
    /\ \E key \in Keys :
        LET out == IsAllowedOutcome(store[key], now) IN
        /\ store' = [store EXCEPT ![key] = StoredAfter(store[key], now)]
        /\ admit' = [admit EXCEPT ![r] =
                        [key |-> key, at |-> now, kind |-> out.kind,
                         allowed |-> out.allowed,
                         retry_after |-> out.retry_after,
                         header |-> IF out.kind = "return" /\ ~out.allowed
                                    THEN RetryAfterHeader(out) ELSE ""]]
        /\ IF out.kind = "raise"
           THEN /\ rpc' = [rpc EXCEPT ![r] = "error500"]
                /\ UNCHANGED <<tpc, ppc>>
           ELSE IF ~out.allowed
           THEN /\ rpc' = [rpc EXCEPT ![r] = "rejected429"]
                /\ UNCHANGED <<tpc, ppc>>
           ELSE IF ~groq_client
           THEN /\ rpc' = [rpc EXCEPT ![r] = "error503"]
                /\ UNCHANGED <<tpc, ppc>>
           ELSE /\ rpc' = [rpc EXCEPT ![r] = "gather"]
                /\ tpc' = [tpc EXCEPT ![r] = "queued"]
                /\ ppc' = [ppc EXCEPT ![r] = "queued"]
    /\ UNCHANGED <<now, max_requests, window, calls>>
    /\ UNCHANGED <<groq_client, wake, jina_last_call, jina_gets>>
    /\ UNCHANGED streamVars
    /\ UNCHANGED pageVars

\* scrape_via_jina: elapsed = time.time() - _jina_last_call, and the
\* decision to sleep
jina_elapsed(r) ==
    /\ tpc[r] = "queued"
    /\ LET elapsed == now - jina_last_call IN
       IF elapsed < JinaIntervalTicks
       THEN /\ tpc' = [tpc EXCEPT ![r] = "sleep"]
            /\ wake' = [wake EXCEPT ![r] = now + (JinaIntervalTicks - elapsed)]
       ELSE /\ tpc' = [tpc EXCEPT ![r] = "stamp"]
            /\ UNCHANGED wake
    /\ UNCHANGED <<groq_client, rpc, admit, ppc, jina_last_call, jina_gets>>
    /\ UNCHANGED rlVars
    /\ UNCHANGED streamVars
    /\ UNCHANGED pageVars

\* time.sleep(_JINA_MIN_INTERVAL - elapsed) returns
jina_sleep_done(r) ==
    /\ tpc[r] = "sleep"
    /\ now >= wake[r]
    /\ tpc' = [tpc EXCEPT ![r] = "stamp"]
    /\ UNCHANGED <<groq_client, rpc, admit, wake, ppc, jina_last_call, jina_gets>>
    /\ UNCHANGED rlVars
    /\ UNCHANGED streamVars
    /\ UNCHANGED pageVars

\* _jina_last_call = time.time()
jina_stamp(r) ==
    /\ tpc[r] = "stamp"
    /\ jina_last_call' = now
    /\ tpc' = [tpc EXCEPT ![r] = "get"]
    /\ UNCHANGED <<groq_client, rpc, admit, wake, ppc, jina_gets>>
    /\ UNCHANGED rlVars
    /\ UNCHANGED streamVars
    /\ UNCHANGED pageVars

\* client.get(jina_url, headers=headers) is issued
jina_get(r) ==
    /\ tpc[r] = "get"
    /\ jina_gets' = Append(jina_gets, now)
    /\ tpc' = [tpc EXCEPT ![r] = "fetching"]
    /\ UNCHANGED <<groq_client, rpc, admit, wake, ppc, jina_last_call>>
    /\ UNCHANGED rlVars
    /\ UNCHANGED streamVars
    /\ UNCHANGED pageVars

\* The rest of scrape_page: the Jina answer arrives (or fails), and with
\* thin content the direct fetch runs before the job returns.
scrape_page_return(r) ==
    /\ tpc[r] = "fetching"
    /\ tpc' = [tpc EXCEPT ![r] = "done"]
    /\ UNCHANGED <<groq_client, rpc, admit, wake, ppc, jina_last_call, jina_gets>>
    /\ UNCHANGED rlVars
    /\ UNCHANGED streamVars
    /\ UNCHANGED pageVars

\* get_pagespeed_score runs on its pool thread
get_pagespeed_scoreAfterScrape(r) ==
    /\ ppc[r] = "queued"
    /\ tpc[r] = "done"
    /\ ppc' = [ppc EXCEPT ![r] = "done"]
    /\ UNCHANGED <<groq_client, rpc, admit, tpc, wake, jina_last_call, jina_gets>>
    /\ UNCHANGED rlVars
    /\ UNCHANGED streamVars
    /\ UNCHANGED pageVars
get_pagespeed_score(r) ==
    /\ ppc[r] = "queued"
    /\ ppc' = [ppc EXCEPT ![r] = "done"]
    /\ UNCHANGED <<groq_client, rpc, admit, tpc, wake, jina_last_call, jina_gets>>
    /\ UNCHANGED rlVars
    /\ UNCHANGED streamVars
    /\ UNCHANGED pageVars

\* asyncio.gather returns: extraction, scoring, weighting, and the
\* StreamingResponse is handed back.
analyze_site_gathered(r) ==
    /\ rpc[r] = "gather"
    /\ tpc[r] = "done"
    /\ ppc[r] = "done"
    /\ rpc' = [rpc EXCEPT ![r] = "streaming"]
    /\ UNCHANGED <<groq_client, admit, tpc, wake, ppc, jina_last_call, jina_gets>>
    /\ UNCHANGED rlVars
    /\ UNCHANGED streamVars
    /\ UNCHANGED pageVars

\* The clock advances while requests are in flight.
ReqTick ==
    /\ now < ReqMaxTime
    /\ now' = now + 1
    /\ UNCHANGED <<max_requests, window, store, calls>>
    /\ UNCHANGED streamVars
    /\ UNCHANGED reqVars
    /\ UNCHANGED pageVars

ReqNext ==
    \/ ReqTick
    \/ \E r \in Requests :
        \/ analyze_site_begin(r)
        \/ jina_elapsed(r)
        \/ jina_sleep_done(r)
        \/ jina_stamp(r)
        \/ jina_get(r)
        \/ scrape_page_return(r)
        \/ get_pagespeed_score(r)
        \/ analyze_site_gathered(r)

\* The scrape_page job as the event loop sees it: submitted to the pool, it
\* completes at some later point.  Its steps inside scrape_via_jina are the
\* actions jina_elapsed .. scrape_page_return above; they touch the throttle
\* only, never the rate limiter.
scrape_page_job(r) ==
    /\ tpc[r] = "queued"
    /\ tpc' = [tpc EXCEPT ![r] = "done"]
    /\ UNCHANGED <<groq_client, rpc, admit, wake, ppc, jina_last_call, jina_gets>>
    /\ UNCHANGED rlVars
    /\ UNCHANGED streamVars
    /\ UNCHANGED pageVars

\* The clock advances between admission checks.
AdmitTick ==
    /\ now < AdmitMaxTime
    /\ now' = now + 1
    /\ UNCHANGED <<max_requests, window, store, calls>>
    /\ UNCHANGED streamVars
    /\ UNCHANGED reqVars
    /\ UNCHANGED pageVars

AdmitNext ==
    \/ AdmitTick
    \/ \E r \in Requests :
        \/ analyze_site_begin(r)
        \/ scrape_page_job(r)
        \/ get_pagespeed_score(r)
        \/ analyze_site_gathered(r)

\* ------------------------------------------------------------ PageSignals
\* None of Python: the value of a measurement that was not made
None == 0 - 1

\* A text is described by what the code looks at: s names its characters,
\* n is len(text), sep tells whether it holds one of "|", "-", ":", and kw
\* is the set of its lower-cased words of more than 4 characters.  Texts are
\* given trimmed.  present is FALSE for a text the page does not carry.
Text(s, n, sep, kw) ==
    [s |-> s, n |-> n, sep |-> sep, kw |-> kw, present |-> TRUE]
EmptyText == Text("", 0, FALSE, {})
Absent == [s |-> "", n |-> 0, sep |-> FALSE, kw |-> {}, present |-> FALSE]
NoH1Found == Text("No H1 Found", 11, FALSE, {"found"})
NoContent == Text("No Content", 10, FALSE, {"content"})

\* text[:k]
Truncate(t, k) == IF t.n <= k THEN t ELSE [t EXCEPT !.n = k]

\* title.lower().strip() in ["home", "welcome", "untitled", "index"]
GenericTitle(t) == t.s \in {"Home", "home", "Welcome", "welcome",
                            "Untitled", "untitled", "Index", "index"}

\* meta_description: its length and the number of the 10 action words in it
Meta(n, actions) == [n |-> n, actions |-> actions]

\* body_copy: src names the representation its paragraphs were taken from,
\* n is len(body), avg the average words per sentence rounded up (0 when no
\* sentence is longer than 10 characters), paras the number of paragraphs
\* joined with " | ", kw the keywords within body[:200].
Body(src, n, avg, paras, kw) ==
    [src |-> src, n |-> n, avg |-> avg, paras |-> paras, kw |-> kw]

\* page_text: words is len(page_text.split()); hits is the set of pattern
\* groups re.search finds in it; trust counts the 21 trust patterns found,
\* cta the 13 strong CTA keywords found, intent the intent keywords of the
\* request's goal found in page_text + h1 + body_copy, and goal_signal
\* tells whether one of the goal's conversion signals occurs.
PageText(src, words, hits, trust, cta, intent, goal_signal) ==
    [src |-> src, words |-> words, hits |-> hits, trust |-> trust,
     cta |-> cta, intent |-> intent, goal_signal |-> goal_signal]

\* "width=device-width, initial-scale=1"
FullViewport == {"width=device-width", "initial-scale=1"}

\* The empty PageSignals extract_signals returns when nothing was fetched.
\* Lists are described by their lengths; input_types counts the entries
\* other than "hidden" and "submit"; cta_texts is the number of texts and
\* of (text, strong keyword) matches.
EmptySignals ==
    [h1 |-> NoContent, h2s |-> 0, h3s |-> 0, title |-> EmptyText,
     meta_description |-> Meta(0, 0), body_copy |-> Body("", 0, 0, 0, {}),
     cta_texts |-> [count |-> 0, matched |-> 0], img_count |-> 0,
     alt_texts |-> 0,
     has_form |-> FALSE, input_types |-> 0, nav_links |-> 0,
     total_links |-> 0, has_schema |-> FALSE, has_viewport |-> TRUE,
     viewport_content |-> FullViewport, page_text |-> PageText("", 0, {}, 0, 0, 0, FALSE)]

\* ------------------------------------------------------ scoring functions
\* min(100, max(5, score))
Clamp(x) == Min(100, Max(5, x))

\* A URL is its scheme as written and the rest after "://"
Url(scheme, rest) == [scheme |-> scheme, rest |-> rest]

\* url.startswith("https://")
score_https_ssl(u) == IF u.scheme = "https" THEN 90 ELSE 10

score_title_tag(s) ==
    LET length == s.title.n IN
    IF length = 0 THEN 25
    ELSE Clamp(40
          + (IF 30 <= length /\ length <= 60 THEN 35
             ELSE IF (20 <= length /\ length < 30)
                     \/ (60 < length /\ length <= 70) THEN 20
             ELSE 10)
          + (IF s.title.sep THEN 15 ELSE 0)
          - (IF GenericTitle(s.title) THEN 20 ELSE 0))

\* sig.get("h1") and sig["h1"] != "No H1 Found"
HasRealH1(s) == s.h1.n > 0 /\ s.h1.s # "No H1 Found"

score_heading_hierarchy(s) ==
    Clamp(20
          + (IF HasRealH1(s) THEN 35 ELSE 0)
          + (IF s.h2s > 0 THEN 25 + (IF s.h2s >= 3 THEN 10 ELSE 0) ELSE 0)
          + (IF s.h3s > 0 THEN 10 ELSE 0))

score_content_depth(s) ==
    LET word_count == s.page_text.words IN
    Clamp((IF word_count >= 800 THEN 50
           ELSE IF word_count >= 400 THEN 35
           ELSE IF word_count >= 200 THEN 20
           ELSE IF word_count >= 100 THEN 10
           ELSE 2)
          + Min(30, (s.h2s + s.h3s) * 6)
          + (IF s.body_copy.n > 0 THEN 20 ELSE 0))

score_schema_markup(s) ==
    IF s.has_schema THEN 90
    ELSE IF "schema" \in s.page_text.hits THEN 70
    ELSE 30

score_readability(s) ==
    LET body == s.body_copy IN
    IF body.n = 0 THEN 20
    ELSE Clamp(30
          + (IF body.avg = 0 THEN 0
             ELSE IF body.avg <= 15 THEN 40
             ELSE IF body.avg <= 20 THEN 30
             ELSE IF body.avg <= 25 THEN 15
             ELSE 5)
          + Min(20, body.paras * 5)
          - (IF body.n > 400 /\ body.paras < 2 THEN 10 ELSE 0))

score_meta_description(s) ==
    LET length == s.meta_description.n IN
    IF length = 0 THEN 20
    ELSE Clamp(30
          + (IF 120 <= length /\ length <= 160 THEN 40
             ELSE IF 80 <= length /\ length < 120 THEN 25
             ELSE IF 0 < length /\ length < 80 THEN 10
             ELSE 0)
          + Min(30, s.meta_description.actions * 8))

\* coverage = len(alt_texts) / img_count, compared in tenths
score_image_alt_text(s) ==
    IF s.img_count = 0 THEN 50
    ELSE IF s.alt_texts * 10 >= 9 * s.img_count THEN 90
    ELSE IF s.alt_texts * 10 >= 7 * s.img_count THEN 70
    ELSE IF s.alt_texts * 10 >= 5 * s.img_count THEN 55
    ELSE IF s.alt_texts * 10 >= 3 * s.img_count THEN 40
    ELSE IF s.alt_texts * 10 >= 1 * s.img_count THEN 30
    ELSE 20

score_internal_links(s) ==
    Clamp((IF s.total_links >= 10 THEN 35
           ELSE IF s.total_links >= 5 THEN 25
           ELSE IF s.total_links >= 2 THEN 15
           ELSE 5)
          + (IF s.nav_links >= 5 THEN 35
             ELSE IF s.nav_links >= 3 THEN 25
             ELSE IF s.nav_links >= 1 THEN 15
             ELSE 0)
          - (IF s.total_links > 100 THEN 15 ELSE 0))

score_keyword_placement(s) ==
    LET h1_words == s.h1.kw
        title_matches == Cardinality(h1_words \cap s.title.kw)
        body_matches == Cardinality(h1_words \cap s.body_copy.kw)
    IN IF h1_words = {} THEN 20
       ELSE Clamp(20 + Min(30, title_matches * 10)
                     + Min(30, body_matches * 8)
                     + (IF title_matches > 0 THEN 20 ELSE 0))

score_multimedia(s) ==
    Clamp((IF s.img_count >= 5 THEN 40
           ELSE IF s.img_count >= 3 THEN 30
           ELSE IF s.img_count >= 1 THEN 20
           ELSE 0)
          + (IF "video" \in s.page_text.hits THEN 30 ELSE 0)
          + (IF "chart" \in s.page_text.hits THEN 20 ELSE 0)
          + (IF "tool" \in s.page_text.hits THEN 10 ELSE 0))

\* len(intent_keywords[goal]) for the 13 goals of the table
INTENT_KEYWORDS ==
    [cro |-> 8, landing_page_optimization |-> 7, ab_testing |-> 6,
     multivariate_testing |-> 6, cart_abandonment |-> 7,
     customer_engagement |-> 7, cx_optimization |-> 7,
     customer_retention |-> 7, feature_rollout |-> 7, grow_traffic |-> 8,
     website_optimization |-> 7, personalization |-> 6,
     website_redesign |-> 7]

score_search_intent(s, g) ==
    IF g \notin DOMAIN INTENT_KEYWORDS THEN 50
    ELSE LET matches == Min(s.page_text.intent, INTENT_KEYWORDS[g])
         IN Clamp(10 + (matches * 9))

\* the goals goal_signals has a list for
GOAL_SIGNALS ==
    {"cart_abandonment", "cro", "grow_traffic", "landing_page_optimization",
     "customer_retention", "personalization", "customer_engagement",
     "feature_rollout", "ab_testing", "multivariate_testing",
     "website_redesign", "cx_optimization", "website_optimization"}

score_conversion_intent(s, g) ==
    Clamp(20
          + (IF s.has_form
             THEN 25 + (IF s.input_types <= 3 THEN 10 ELSE 0)
             ELSE 0)
          + Min(25, s.cta_texts.matched * 8)
          + Min(15, s.page_text.cta * 3)
          + (IF g \in GOAL_SIGNALS /\ s.page_text.goal_signal
             THEN 15 ELSE 0)
          + (IF s.total_links >= 3 THEN 5 ELSE 0))

score_trust_resonance(s) ==
    Clamp(30
          + 4 * s.page_text.trust
          + (IF "social_proof" \in s.page_text.hits THEN 12 ELSE 0)
          + (IF s.has_schema THEN 8 ELSE 0)
          + (IF s.alt_texts > 2 THEN 5 ELSE 0)
          + (IF "secure" \in s.page_text.hits THEN 5 ELSE 0))

\* The score derived from the viewport when no measurement was made
ViewportScore(s) ==
    Clamp(50
          + (IF s.has_viewport
             THEN 20
                  + (IF "width=device-width" \in s.viewport_content
                     THEN 15 ELSE 0)
                  + (IF "initial-scale=1" \in s.viewport_content
                     THEN 10 ELSE 0)
             ELSE 0)
          + (IF "responsive" \in s.page_text.hits THEN 5 ELSE 0))

score_mobile_readinessClamped(s, p) ==
    IF p # None THEN Clamp(p) ELSE ViewportScore(s)
score_mobile_readiness(s, p) ==
    IF p # None THEN p ELSE ViewportScore(s)

score_semantic_authority(s) ==
    Clamp(25
          + (IF HasRealH1(s) THEN 25 ELSE 0)
          + (IF s.h2s > 0 THEN 18 ELSE 0)
          + (IF s.h3s > 0 THEN 8 ELSE 0)
          + (IF s.meta_description.n > 0
             THEN 12 + (IF 50 <= s.meta_description.n
                           /\ s.meta_description.n <= 160 THEN 6 ELSE 0)
             ELSE 0)
          + (IF s.title.n > 0
             THEN 8 + (IF 30 <= s.title.n /\ s.title.n <= 65 THEN 6 ELSE 0)
             ELSE 0)
          + (IF s.has_schema THEN 10 ELSE 0)
          + (IF s.page_text.words > 300 THEN 5 ELSE 0))

\* ------------------------------------------------------ goal weighting
\* The multipliers of GOAL_WEIGHTS, in tenths
GOAL_WEIGHTS ==
    [ab_testing |->
        [conversion_intent |-> 14, readability |-> 13, multimedia |-> 12,
         content_depth |-> 11, schema_markup |-> 6],
     cart_abandonment |->
        [trust_resonance |-> 15, conversion_intent |-> 14,
         readability |-> 12, internal_links |-> 11, heading_hierarchy |-> 7,
         schema_markup |-> 6],
     cro |->
        [conversion_intent |-> 15, trust_resonance |-> 13,
         readability |-> 12, search_intent |-> 12, content_depth |-> 11,
         schema_markup |-> 8],
     customer_engagement |->
        [content_depth |-> 15, readability |-> 14, multimedia |-> 14,
         internal_links |-> 13, search_intent |-> 11, https_ssl |-> 7],
     cx_optimization |->
        [readability |-> 15, mobile_readiness |-> 14, internal_links |-> 13,
         conversion_intent |-> 12, trust_resonance |-> 12,
         schema_markup |-> 6],
     customer_retention |->
        [trust_resonance |-> 15, content_depth |-> 13, search_intent |-> 13,
         readability |-> 12, conversion_intent |-> 11, title_tag |-> 7,
         schema_markup |-> 5],
     feature_rollout |->
        [content_depth |-> 14, readability |-> 14, heading_hierarchy |-> 13,
         multimedia |-> 13, conversion_intent |-> 12, https_ssl |-> 7,
         schema_markup |-> 6],
     grow_traffic |->
        [semantic_authority |-> 15, heading_hierarchy |-> 14,
         meta_description |-> 14, content_depth |-> 14,
         keyword_placement |-> 14, title_tag |-> 13, schema_markup |-> 13,
         https_ssl |-> 12, conversion_intent |-> 5, trust_resonance |-> 7],
     landing_page_optimization |->
        [conversion_intent |-> 15, trust_resonance |-> 14,
         readability |-> 13, search_intent |-> 13, multimedia |-> 12,
         schema_markup |-> 6, internal_links |-> 7],
     multivariate_testing |->
        [conversion_intent |-> 14, content_depth |-> 13, multimedia |-> 13,
         readability |-> 12, heading_hierarchy |-> 12, schema_markup |-> 5],
     website_optimization |->
        [mobile_readiness |-> 14, semantic_authority |-> 13,
         content_depth |-> 12, https_ssl |-> 12, readability |-> 12,
         heading_hierarchy |-> 11, schema_markup |-> 11],
     personalization |->
        [search_intent |-> 15, content_depth |-> 13,
         conversion_intent |-> 13, trust_resonance |-> 12, multimedia |-> 12,
         schema_markup |-> 6, keyword_placement |-> 7],
     website_redesign |->
        [mobile_readiness |-> 15, readability |-> 14,
         heading_hierarchy |-> 13, multimedia |-> 13,
         conversion_intent |-> 12, trust_resonance |-> 12,
         content_depth |-> 11]]

VALID_GOALS ==
    {"ab_testing", "cart_abandonment", "cro", "customer_engagement",
     "cx_optimization", "customer_retention", "feature_rollout",
     "grow_traffic", "landing_page_optimization", "multivariate_testing",
     "website_optimization", "personalization", "website_redesign"}

\* int(value * multiplier) for the multiplier m10 / 10 and a value of
\* 0..100.  For four products of the table the double lies just below the
\* exact product, a whole number, and int() gives one less
\* (90 * 0.7 = 62.99999...).
IntTimes(v, m10) ==
    ((v * m10) \div 10)
    - (IF <<v, m10>> \in {<<90, 7>>, <<45, 14>>, <<85, 14>>, <<90, 14>>}
       THEN 1 ELSE 0)

\* Each key of the table is visited once, so the loop is a pointwise map.
apply_goal_weightsAllKeys(sc, g) ==
    [key \in DOMAIN sc |->
        IF key # "page_speed"
        THEN Clamp(IntTimes(sc[key], 12))
        ELSE sc[key]]
apply_goal_weights(sc, g) ==
    LET weights == IF g \in DOMAIN GOAL_WEIGHTS THEN GOAL_WEIGHTS[g]
                   ELSE [d \in {} |-> 0]
    IN
    IF DOMAIN weights = {} THEN sc
    ELSE [key \in DOMAIN sc |->
            IF key \in DOMAIN weights /\ key # "page_speed"
            THEN Clamp(IntTimes(sc[key], weights[key]))
            ELSE sc[key]]

\* ------------------------------------------------- inputs of the scoring
\* The keys of the scores mapping analyze_site builds
Dimensions ==
    {"conversion_intent", "trust_resonance", "mobile_readiness",
     "semantic_authority", "https_ssl", "title_tag", "heading_hierarchy",
     "content_depth", "schema_markup", "readability", "meta_description",
     "image_alt_text", "internal_links", "keyword_placement", "multimedia",
     "search_intent"}

\* The goals a caller can pass: the 13 valid ones and one without tables
Goals == VALID_GOALS \cup {"lead_generation"}

\* str.lower() of a scheme
Lower(t) == CASE t \in {"https", "HTTPS", "Https"} -> "https"
              [] t \in {"http", "HTTP", "Http"} -> "http"
              [] OTHER -> t

\* is_safe_url of a URL with a scheme: the scheme, lower-cased, is http or
\* https, and the host is neither a blocked name nor a private, loopback,
\* link-local or reserved address (10.0.0.1 stands for those)
is_safe_url(u) ==
    /\ Lower(u.scheme) \in {"http", "https"}
    /\ u.rest \notin {"localhost", "127.0.0.1", "0.0.0.0", "::1", "10.0.0.1"}

\* AuditRequest.validate_url on a trimmed, non-empty text of at most 2048
\* characters; scheme is "" for a text without "://".  A text that does
\* not match ^https?:// (ignoring case) gets "https://" in front; the
\* value returned keeps the letter case it was given.
validate_url(v) ==
    LET w == IF Lower(v.scheme) \in {"http", "https"} THEN v
             ELSE Url("https", v.rest)
    IN [ok |-> is_safe_url(w), url |-> w]

\* body.url of the requests the validator lets through
Urls ==
    LET raw == {Url(sc, h) :
                   sc \in {"", "https", "http", "HTTPS", "Http"},
                   h \in {"acme.test", "localhost", "10.0.0.1"}}
    IN {validate_url(v).url : v \in {w \in raw : validate_url(w).ok}}

Keywords == {"landing", "pages", "convert"}
Hits == {"schema", "video", "chart", "tool", "social_proof", "secure",
         "responsive"}

RealH1 == Text("Landing pages that convert", 26, FALSE, Keywords)

\* A page that earns every bonus
RichSignals ==
    [h1 |-> RealH1, h2s |-> 5, h3s |-> 5,
     title |-> Text("Acme | Landing pages that convert", 33, TRUE, Keywords),
     meta_description |-> Meta(140, 4),
     body_copy |-> Body("jina", 600, 12, 5, Keywords),
     cta_texts |-> [count |-> 8, matched |-> 4], img_count |-> 6,
     alt_texts |-> 5,
     has_form |-> TRUE, input_types |-> 2, nav_links |-> 8,
     total_links |-> 40, has_schema |-> TRUE, has_viewport |-> TRUE,
     viewport_content |-> FullViewport,
     page_text |-> PageText("jina", 1000, Hits, 21, 13, 8, TRUE)]

\* The signals the scoring functions are applied to: a base with the
\* fields one function reads set to the values around its thresholds
VariantsOf(b) ==
    LET titles ==
            {EmptyText, Text("Home", 4, FALSE, {}),
             Text("welcome", 7, FALSE, {}), Text("Index", 5, FALSE, {})}
            \cup {Text("Acme landing pages", n, sep, {"landing", "pages"}) :
                    n \in {19, 20, 29, 30, 60, 61, 65, 66, 70, 71, 120},
                    sep \in BOOLEAN}
        h1s == {NoContent, NoH1Found, EmptyText, RealH1,
                Text("Acme", 4, FALSE, {})}
        bodies ==
            {Body("", 0, 0, 0, {})}
            \cup {Body("jina", n, avg, paras, kw) :
                    n \in {41, 400, 401, 600},
                    avg \in {0, 15, 16, 20, 21, 25, 26},
                    paras \in {1, 2, 5}, kw \in {{}, {"landing"}, Keywords}}
        metas ==
            {Meta(0, 0)}
            \cup {Meta(n, a) :
                    n \in {1, 49, 50, 79, 80, 119, 120, 160, 161, 200},
                    a \in {0, 1, 3, 4, 10}}
    IN
    {[b EXCEPT !.title = t] : t \in titles}
    \cup {[b EXCEPT !.h1 = h, !.h2s = a, !.h3s = c] :
            h \in h1s, a \in {0, 1, 2, 3, 5}, c \in {0, 1, 5}}
    \cup {[b EXCEPT !.page_text.words = w, !.body_copy = bd] :
            w \in {0, 99, 100, 199, 200, 300, 301, 399, 400, 799, 800},
            bd \in bodies}
    \cup {[b EXCEPT !.meta_description = m] : m \in metas}
    \cup {[b EXCEPT !.img_count = k, !.alt_texts = Min(a, k)] :
            k \in 0..MaxImages, a \in 0..5}
    \cup {[b EXCEPT !.total_links = t, !.nav_links = Min(n, t)] :
            t \in {0, 1, 2, 3, 4, 5, 9, 10, 100, 101}, n \in {0, 1, 3, 5, 8}}
    \cup {[b EXCEPT !.page_text.hits = h, !.page_text.trust = t,
                    !.has_schema = sc] :
            h \in SUBSET Hits, t \in {0, 1, 21}, sc \in BOOLEAN}
    \cup {[b EXCEPT !.has_form = f, !.input_types = i,
                    !.cta_texts = [count |-> 8, matched |-> m],
                    !.page_text.cta = c, !.page_text.goal_signal = gs] :
            f \in BOOLEAN, i \in {0, 3, 4}, m \in {0, 1, 3, 4},
            c \in {0, 1, 5, 13}, gs \in BOOLEAN}
    \cup {[b EXCEPT !.page_text.intent = i] : i \in 0..8}
    \cup {[b EXCEPT !.has_viewport = v, !.viewport_content = c,
                    !.page_text.hits = h] :
            v \in BOOLEAN, c \in SUBSET FullViewport,
            h \in {{}, {"responsive"}, Hits}}
    \cup {[b EXCEPT !.h1 = Text("Landing pages", 13, FALSE, hk),
                    !.title = Text("Acme landing pages", 18, FALSE, tk),
                    !.body_copy = Body("jina", 300, 12, 3, bk)] :
            hk \in SUBSET Keywords, tk \in SUBSET Keywords,
            bk \in SUBSET Keywords}

DefaultUrl == Url("https", "acme.test")

\* The inputs the scoring functions are called with: int(score * 100) of
\* a Lighthouse score of 0..1 or None for page_speed
ScoreInputs ==
    {[sig |-> s, goal |-> "cro", page_speed |-> None, url |-> DefaultUrl] :
        s \in VariantsOf(EmptySignals) \cup VariantsOf(RichSignals)}
    \cup {[sig |-> [b EXCEPT !.page_text.intent = i,
                             !.page_text.goal_signal = gs],
            goal |-> g, page_speed |-> None, url |-> DefaultUrl] :
            b \in {EmptySignals, RichSignals}, i \in {0, 1, 8},
            gs \in BOOLEAN, g \in Goals}
    \cup {[sig |-> b, goal |-> "cro", page_speed |-> p, url |-> u] :
            b \in {EmptySignals, RichSignals},
            p \in {None} \cup (0..MaxPageSpeed), u \in Urls}

\* The scoring function behind each key of the scores dict
ScoreOf(d, s, g, p, u) ==
    CASE d = "conversion_intent" -> score_conversion_intent(s, g)
      [] d = "trust_resonance" -> score_trust_resonance(s)
      [] d = "mobile_readiness" -> score_mobile_readiness(s, p)
      [] d = "semantic_authority" -> score_semantic_authority(s)
      [] d = "https_ssl" -> score_https_ssl(u)
      [] d = "title_tag" -> score_title_tag(s)
      [] d = "heading_hierarchy" -> score_heading_hierarchy(s)
      [] d = "content_depth" -> score_content_depth(s)
      [] d = "schema_markup" -> score_schema_markup(s)
      [] d = "readability" -> score_readability(s)
      [] d = "meta_description" -> score_meta_description(s)
      [] d = "image_alt_text" -> score_image_alt_text(s)
      [] d = "internal_links" -> score_internal_links(s)
      [] d = "keyword_placement" -> score_keyword_placement(s)
      [] d = "multimedia" -> score_multimedia(s)
      [] d = "search_intent" -> score_search_intent(s, g)

\* One call of a scoring function with the inputs at hand; fn names the
\* function by the key its score is stored under
ScoreNext == \E d \in Dimensions :
    /\ fn' = d
    /\ ret' = ScoreOf(d, sig, goal, page_speed, url)
    /\ UNCHANGED <<url, goal, page_speed, fpc, fetch_log, jina_data, raw_html,
                   sig, used, scores, weighted, mpc, metrics>>
    /\ UNCHANGED rlVars
    /\ UNCHANGED streamVars
    /\ UNCHANGED reqVars

\* One call apply_goal_weights(scores, goal)
call_apply_goal_weights ==
    /\ weighted' = apply_goal_weights(scores, goal)
    /\ fn' = "apply_goal_weights"
    /\ UNCHANGED <<url, goal, page_speed, fpc, fetch_log, jina_data, raw_html,
                   sig, used, ret, scores, mpc, metrics>>
    /\ UNCHANGED rlVars
    /\ UNCHANGED streamVars
    /\ UNCHANGED reqVars

\* --------------------------------------------------- fetched documents
\* What scrape_via_jina returns.  type is "dict" for a JSON object and
\* "list" for a truthy JSON value that is not an object; empty marks {}.
\* content is the markdown under "content" (or "text"): words is
\* len(content.split()), h1_lines the texts of the lines starting with
\* "# ", h2_lines and h3_lines the numbers of "## " and "### " lines, body
\* the paragraphs of more than 40 characters, text what the searches find
\* in it, form_kws the number of the 8 form keywords in it and inputs the
\* number of "email", "phone", "name", "password" in it.  links: total is
\* the length of the array, texts the number of distinct link texts short
\* enough for a CTA and a navigation link, matched their (text, strong
\* keyword) matches, nav the number serving as navigation links.  images:
\* the length of the array and the number of entries with a non-empty alt.
EmptyDict ==
    [type |-> "dict", empty |-> TRUE, title |-> Absent,
     description |-> Meta(0, 0),
     content |-> [words |-> 0, h1_lines |-> <<>>, h2_lines |-> 0,
                  h3_lines |-> 0, body |-> Body("", 0, 0, 0, {}),
                  text |-> PageText("", 0, {}, 0, 0, 0, FALSE),
                  form_kws |-> 0, inputs |-> 0],
     links |-> [total |-> 0, texts |-> 0, matched |-> 0, nav |-> 0],
     images |-> [count |-> 0, alts |-> 0]]
\* A JSON object without "data", "title", "content": the envelope itself
EnvelopeOnly == [EmptyDict EXCEPT !.empty = FALSE]
NonDict == [EmptyDict EXCEPT !.type = "list", !.empty = FALSE]

\* What scrape_via_httpx returns: "" or markup.  tokens is
\* len(html.split()); the other fields are what BeautifulSoup finds:
\* <title>, the first <h1>, the numbers of <h2> and <h3>, the description
\* <meta>, the <p> of more than 40 characters, the <a> and <button>, the
\* <img>, a <form>, the <input> other than hidden and submit, an
\* application/ld+json <script>, the viewport <meta>, and get_text().
EmptyHtml ==
    [empty |-> TRUE, tokens |-> 0, title |-> Absent, h1 |-> Absent,
     h2s |-> 0, h3s |-> 0, meta |-> Meta(0, 0),
     body |-> Body("", 0, 0, 0, {}),
     links |-> [total |-> 0, texts |-> 0, matched |-> 0, nav |-> 0],
     images |-> [count |-> 0, alts |-> 0],
     has_form |-> FALSE, inputs |-> 0, ld_json |-> FALSE,
     viewport |-> [present |-> FALSE, directives |-> {}],
     text |-> PageText("", 0, {}, 0, 0, 0, FALSE)]

\* ------------------------------------------------------ extract_signals
\* for tag in soup(["script", "style", "noscript"]): tag.decompose()
\* removes every <script>, the application/ld+json blocks included
Decompose(h) == [h EXCEPT !.ld_json = FALSE]

_signals_from_html(html) ==
    LET soup == Decompose(html)
        h1_text == IF soup.h1.present THEN Truncate(soup.h1, 120)
                   ELSE NoH1Found
    IN [h1 |-> h1_text,
        h2s |-> Min(5, soup.h2s),
        h3s |-> Min(5, soup.h3s),
        title |-> IF soup.title.present THEN Truncate(soup.title, 120)
                  ELSE h1_text,
        meta_description |-> [soup.meta EXCEPT !.n = Min(200, @)],
        body_copy |-> soup.body,
        cta_texts |-> [count |-> Min(8, soup.links.texts),
                      matched |-> soup.links.matched],
        img_count |-> soup.images.count,
        alt_texts |-> Min(5, soup.images.alts),
        has_form |-> soup.has_form,
        input_types |-> soup.inputs,
        nav_links |-> Min(8, soup.links.nav),
        total_links |-> soup.links.total,
        has_schema |-> soup.ld_json,
        has_viewport |-> soup.viewport.present,
        viewport_content |-> soup.viewport.directives,
        page_text |-> soup.text]

\* len(jina_content.split()) for
\* jina_content = jina_data.get("content", "") or jina_data.get("text", "")
JinaWords(j) == j.content.words

\* html and len(html.split()) > len(jina_content.split())
HtmlRicherOnlyIfNoWords(j, html) == ~html.empty /\ JinaWords(j) = 0
HtmlRicher(j, html) == ~html.empty /\ html.tokens > JinaWords(j)

\* The branch extract_signals takes
BranchWithoutEmpty(j, html) ==
    IF HtmlRicher(j, html) THEN "html" ELSE "jina"
Branch(j, html) ==
    IF j.empty /\ html.empty THEN "empty"
    ELSE IF HtmlRicher(j, html) THEN "html"
    ELSE "jina"

\* The parse of the Jina answer (lines 495-574)
SignalsFromJina(j) ==
    LET title_text == IF j.title.present THEN Truncate(j.title, 120)
                      ELSE EmptyText
        h1_lines == j.content.h1_lines
        h1_text == IF Len(h1_lines) > 0 THEN Truncate(h1_lines[1], 120)
                   ELSE IF title_text.n > 0 THEN title_text
                   ELSE NoH1Found
    IN [h1 |-> h1_text,
        h2s |-> Min(5, j.content.h2_lines),
        h3s |-> Min(5, j.content.h3_lines),
        title |-> IF title_text.n > 0 THEN title_text
                  ELSE IF h1_text.s # "No H1 Found" THEN h1_text
                  ELSE EmptyText,
        meta_description |-> [j.description EXCEPT !.n = Min(200, @)],
        body_copy |-> j.content.body,
        cta_texts |-> [count |-> Min(8, j.links.texts),
                      matched |-> j.links.matched],
        img_count |-> j.images.count,
        alt_texts |-> Min(5, j.images.alts),
        has_form |-> j.content.form_kws >= 2,
        input_types |-> j.content.inputs,
        nav_links |-> Min(8, j.links.nav),
        total_links |-> j.links.total,
        has_schema |-> "schema" \in j.content.text.hits,
        has_viewport |-> TRUE,
        viewport_content |-> FullViewport,
        page_text |-> j.content.text]

extract_signals(j, html) ==
    IF Branch(j, html) = "empty" THEN EmptySignals
    ELSE IF Branch(j, html) = "html" THEN _signals_from_html(html)
    ELSE SignalsFromJina(j)

\* The representations extract_signals is applied to: a bare and a rich
\* answer of each kind, with the title, the headings, the word count and
\* the images varied
RichJina ==
    [type |-> "dict", empty |-> FALSE, title |-> Absent,
     description |-> Meta(140, 2),
     content |-> [words |-> 500, h1_lines |-> <<>>, h2_lines |-> 3,
                  h3_lines |-> 6, body |-> Body("jina", 600, 12, 5, Keywords),
                  text |-> PageText("jina", 500, Hits, 21, 13, 8, TRUE),
                  form_kws |-> 3, inputs |-> 2],
     links |-> [total |-> 40, texts |-> 12, matched |-> 4, nav |-> 9],
     images |-> [count |-> 0, alts |-> 0]]

JinaSamples ==
    {EmptyDict, EnvelopeOnly}
    \cup {[b EXCEPT !.title = title,
                    !.content.h1_lines = IF words = 0 THEN <<>> ELSE h1_lines,
                    !.content.words = words,
                    !.content.text.words = words,
                    !.content.text.src = "jina",
                    !.content.body = IF words = 0 THEN Body("", 0, 0, 0, {})
                                     ELSE IF b.empty \/ words < THIN_CONTENT
                                     THEN Body("jina", 120, 22, 1, {})
                                     ELSE @,
                    !.images = [count |-> k, alts |-> k],
                    !.empty = FALSE] :
            b \in {EmptyDict, RichJina},
            title \in
                {Absent, Text("Home", 4, FALSE, {}),
                 Text("Acme | Landing pages that convert", 33, TRUE,
                      Keywords),
                 Text("Acme landing pages", MaxTitle, FALSE,
                      {"landing", "pages"})},
            words \in {0, 50, 199, 200, 500},
            h1_lines \in {<<>>, <<RealH1>>,
                          <<RealH1, Text("Second heading", 14, FALSE, {})>>},
            k \in {0, 1, MaxImages}}

HtmlH1 == Text("Welcome to the served page", 26, FALSE, {"welcome", "served"})

RichHtml ==
    [empty |-> FALSE, tokens |-> 1000, title |-> Absent, h1 |-> Absent,
     h2s |-> 3, h3s |-> 6, meta |-> Meta(140, 3),
     body |-> Body("html", 600, 14, 5, {"served"}),
     links |-> [total |-> 30, texts |-> 10, matched |-> 3, nav |-> 6],
     images |-> [count |-> 0, alts |-> 0],
     has_form |-> TRUE, inputs |-> 2, ld_json |-> TRUE,
     viewport |-> [present |-> TRUE, directives |-> FullViewport],
     text |-> PageText("html", 500, Hits, 9, 5, 3, TRUE)]

HtmlSamples ==
    {EmptyHtml}
    \cup {[b EXCEPT !.tokens = tokens,
                    !.text.words = tokens \div 2,
                    !.text.src = "html",
                    !.body = IF b.empty \/ tokens >= THIN_CONTENT THEN @
                             ELSE Body("html", 120, 22, 1, {}),
                    !.title = title,
                    !.h1 = h1,
                    !.images = [count |-> k, alts |-> k],
                    !.empty = FALSE] :
            b \in {EmptyHtml, RichHtml},
            tokens \in {40, 200, 500, 1000},
            title \in {Absent, EmptyText, Text("Home", 4, FALSE, {}),
                       Text("Acme - the page as served", 25, TRUE,
                            {"served"})},
            h1 \in {Absent, HtmlH1},
            k \in {0, 1, MaxImages}}

\* One call extract_signals(jina_data, raw_html)
call_extract_signals ==
    /\ fn # "extract_signals"
    /\ fn' = "extract_signals"
    /\ used' = Branch(jina_data, raw_html)
    /\ sig' = extract_signals(jina_data, raw_html)
    /\ UNCHANGED <<url, goal, page_speed, fpc, fetch_log, jina_data, raw_html,
                   ret, scores, weighted, mpc, metrics>>
    /\ UNCHANGED rlVars
    /\ UNCHANGED streamVars
    /\ UNCHANGED reqVars

\* ----------------------------------------------------------- scrape_page
\* The answers the two retrievals can bring back
FetchedJina ==
    {d \in JinaSamples :
        /\ ~d.empty
        /\ d.title \in {Absent, Text("Home", 4, FALSE, {})}
        /\ d.content.h1_lines = <<RealH1>>}
FetchedHtml ==
    {h \in HtmlSamples :
        /\ ~h.empty
        /\ h.title = Absent
        /\ h.h1 = HtmlH1}

\* What client.get and r.json() of scrape_via_jina, and client.get of
\* scrape_via_httpx, can do: the kind of answer and the data it carries
Response(kind, data) == [kind |-> kind, data |-> data]
JinaFailures ==
    {Response(k, EmptyDict) :
        k \in {"timeout", "transport_error", "status_429", "status_500",
               "invalid_json", "json_array"}}
JinaResponses ==
    JinaFailures
    \cup {Response("data_object", d) : d \in FetchedJina}
    \cup {Response("no_data", EnvelopeOnly),
          Response("data_not_object", NonDict)}

\* scrape_via_jina: every exception of the try block and every status
\* other than 200 end in return {}; a 200 answer gives
\* data.get("data") or data, whatever JSON value that is
scrape_via_jina(resp) ==
    IF resp \in JinaFailures THEN EmptyDict ELSE resp.data

HttpxFailures ==
    {Response(k, EmptyHtml) :
        k \in {"timeout", "transport_error", "status_403", "status_500"}}
HttpxResponses ==
    HttpxFailures \cup {Response("ok", h) : h \in FetchedHtml}

\* scrape_via_httpx: r.text[:5_000_000] of a 200 answer, "" otherwise
scrape_via_httpx(resp) ==
    IF resp \in HttpxFailures THEN EmptyHtml ELSE resp.data

\* word_count >= 200 ends scrape_page without the fallback
ThinContentUpTo(word_count) == word_count <= THIN_CONTENT
ThinContent(word_count) == word_count < THIN_CONTENT

\* One retrieval: the strategy, what its request did, and what it returned
Retrieval(strategy, outcome, result) ==
    [strategy |-> strategy, outcome |-> outcome, result |-> result]

\* jina_data = scrape_via_jina(url)
scrape_page_jina ==
    /\ fpc = "start"
    /\ \E resp \in JinaResponses :
        /\ jina_data' = scrape_via_jina(resp)
        /\ fetch_log' = Append(fetch_log,
                Retrieval("jina", resp.kind, scrape_via_jina(resp)))
    /\ fpc' = "jina_done"
    /\ UNCHANGED <<url, goal, page_speed, raw_html, sig, used, fn, ret,
                   scores, weighted, mpc, metrics>>
    /\ UNCHANGED rlVars
    /\ UNCHANGED streamVars
    /\ UNCHANGED reqVars

\* jina_data.get(...) raises AttributeError on a value that is no dict;
\* otherwise the word count decides between return and fallback
scrape_page_count ==
    /\ fpc = "jina_done"
    /\ fpc' = IF jina_data.type # "dict" THEN "raised"
              ELSE IF ThinContent(JinaWords(jina_data)) THEN "thin"
              ELSE "returned"
    /\ UNCHANGED <<url, goal, page_speed, fetch_log, jina_data, raw_html,
                   sig, used, fn, ret, scores, weighted, mpc, metrics>>
    /\ UNCHANGED rlVars
    /\ UNCHANGED streamVars
    /\ UNCHANGED reqVars

\* html = scrape_via_httpx(url), and the return of both results
scrape_page_httpx ==
    /\ fpc = "thin"
    /\ \E resp \in HttpxResponses :
        /\ raw_html' = scrape_via_httpx(resp)
        /\ fetch_log' = Append(fetch_log,
                Retrieval("httpx", resp.kind, scrape_via_httpx(resp)))
    /\ fpc' = "returned"
    /\ UNCHANGED <<url, goal, page_speed, jina_data, sig, used, fn, ret,
                   scores, weighted, mpc, metrics>>
    /\ UNCHANGED rlVars
    /\ UNCHANGED streamVars
    /\ UNCHANGED reqVars

FetchNext ==
    \/ scrape_page_jina
    \/ scrape_page_count
    \/ scrape_page_httpx

\* ------------------------------------------- analyze_site after the gather
NoScores == [d \in {} |-> 0]
NoRecord == [type |-> "", scores |-> NoScores]

\* The scores dict of lines 1053-1074
BaseScores(s, g, p, u) ==
    LET base == [d \in Dimensions |-> ScoreOf(d, s, g, p, u)]
    IN IF p # None
       THEN [d \in Dimensions \cup {"page_speed"} |->
                IF d = "page_speed" THEN p ELSE base[d]]
       ELSE base

\* Lines 1050-1077: extraction, the scores dict and the goal weighting
analyze_site_scores ==
    /\ mpc = "gathered"
    /\ LET extracted == extract_signals(jina_data, raw_html) IN
        /\ sig' = extracted
        /\ used' = Branch(jina_data, raw_html)
        /\ scores' = BaseScores(extracted, goal, page_speed, url)
        /\ weighted' = apply_goal_weights(
                          BaseScores(extracted, goal, page_speed, url), goal)
    /\ mpc' = "scored"
    /\ UNCHANGED <<url, goal, page_speed, fpc, fetch_log, jina_data, raw_html,
                   fn, ret, metrics>>
    /\ UNCHANGED rlVars
    /\ UNCHANGED streamVars
    /\ UNCHANGED reqVars

\* Line 1082: yield json.dumps({"type": "metrics", "scores": scores})
stream_yield_metrics ==
    /\ mpc = "scored"
    /\ metrics' = [type |-> "metrics", scores |-> weighted]
    /\ mpc' = "streaming"
    /\ UNCHANGED <<url, goal, page_speed, fpc, fetch_log, jina_data, raw_html,
                   sig, used, fn, ret, scores, weighted>>
    /\ UNCHANGED rlVars
    /\ UNCHANGED streamVars
    /\ UNCHANGED reqVars

PageNext ==
    \/ analyze_site_scores
    \/ stream_yield_metrics

\* What scrape_page can return to analyze_site
PageResults ==
    {pair \in ({EmptyDict, EnvelopeOnly} \cup FetchedJina)
              \X ({EmptyHtml} \cup FetchedHtml) :
        /\ ThinContent(JinaWords(pair[1])) \/ pair[2].empty
        /\ \/ pair[1].images.count = pair[2].images.count
           \/ pair[1].empty
           \/ pair[2].empty}

\* The scores mappings apply_goal_weights is applied to
ScoreMaps ==
    {[d \in D |-> v] :
        D \in {Dimensions, Dimensions \cup {"page_speed"},
               {"readability", "page_speed"}},
        v \in {0, 5, 45, 50, 85, 90, MaxPageSpeed}}
    \cup {BaseScores(s, "cro", p, DefaultUrl) :
            s \in {EmptySignals, RichSignals}, p \in {None, 50}}

\* ------------------------------------------------------ initial states
\* Nothing has been fetched, extracted or scored.
PageIdle ==
    /\ url = DefaultUrl
    /\ goal = "cro"
    /\ page_speed = None
    /\ fpc = "idle"
    /\ fetch_log = <<>>
    /\ jina_data = EmptyDict
    /\ raw_html = EmptyHtml
    /\ sig = EmptySignals
    /\ used = ""
    /\ fn = ""
    /\ ret = None
    /\ scores = NoScores
    /\ weighted = NoScores
    /\ mpc = "idle"
    /\ metrics = NoRecord

\* No request has arrived.  time.time() is far from the initial
\* _jina_last_call = 0.0, so the clock of the model, which starts at 0,
\* stands a full interval after it.
ReqIdle ==
    /\ rpc = [r \in Requests |-> "new"]
    /\ admit = [r \in Requests |-> NoAdmission]
    /\ tpc = [r \in Requests |-> "idle"]
    /\ wake = [r \in Requests |-> 0]
    /\ ppc = [r \in Requests |-> "idle"]
    /\ jina_last_call = 0 - JinaIntervalTicks
    /\ jina_gets = <<>>

RateLimiterInit ==
    /\ now = 0
    /\ max_requests \in CapValues
    /\ window \in WindowValues
    /\ store = [k \in Keys |-> <<>>]
    /\ calls = [k \in Keys |-> <<>>]

StreamIdle ==
    /\ spc = [s \in Streams |-> "start"]
    /\ ai_res = [s \in Streams |-> NoneValue]
    /\ trace = [s \in Streams |-> <<>>]

Init ==
    /\ RateLimiterInit
    /\ StreamIdle
    /\ ReqIdle
    /\ groq_client = TRUE
    /\ PageIdle

\* The state in which analyze_site has returned its StreamingResponse for
\* each request of Streams and no record has been pulled yet.
StreamInit ==
    /\ RateLimiterInit
    /\ max_requests = MaxCap
    /\ window = MaxWindow
    /\ StreamIdle
    /\ ReqIdle
    /\ groq_client = TRUE
    /\ PageIdle

ReqInit ==
    /\ RateLimiterInit
    /\ StreamIdle
    /\ ReqIdle
    /\ groq_client \in BOOLEAN
    /\ PageIdle

\* The rest of the program at rest, for the specifications of one function
\* or of one request's pipeline
RestIdle ==
    /\ RateLimiterInit
    /\ max_requests = MaxCap
    /\ window = MaxWindow
    /\ StreamIdle
    /\ ReqIdle
    /\ groq_client = TRUE

\* A scoring function is about to be called with inputs of ScoreInputs.
ScoreInit ==
    /\ RestIdle
    /\ \E i \in ScoreInputs :
        /\ sig = i.sig
        /\ goal = i.goal
        /\ page_speed = i.page_speed
        /\ url = i.url
    /\ fpc = "idle"
    /\ fetch_log = <<>>
    /\ jina_data = EmptyDict
    /\ raw_html = EmptyHtml
    /\ used = ""
    /\ fn = ""
    /\ ret = None
    /\ scores = NoScores
    /\ weighted = NoScores
    /\ mpc = "idle"
    /\ metrics = NoRecord

\* apply_goal_weights is about to be called.
WeightsInit ==
    /\ RestIdle
    /\ scores \in ScoreMaps
    /\ goal \in Goals
    /\ url = DefaultUrl
    /\ page_speed = None
    /\ fpc = "idle"
    /\ fetch_log = <<>>
    /\ jina_data = EmptyDict
    /\ raw_html = EmptyHtml
    /\ sig = EmptySignals
    /\ used = ""
    /\ fn = ""
    /\ ret = None
    /\ weighted = NoScores
    /\ mpc = "idle"
    /\ metrics = NoRecord

\* extract_signals is about to be called.
ExtractInit ==
    /\ RestIdle
    /\ jina_data \in JinaSamples
    /\ raw_html \in HtmlSamples
    /\ url = DefaultUrl
    /\ goal = "cro"
    /\ page_speed = None
    /\ fpc = "idle"
    /\ fetch_log = <<>>
    /\ sig = EmptySignals
    /\ used = ""
    /\ fn = ""
    /\ ret = None
    /\ scores = NoScores
    /\ weighted = NoScores
    /\ mpc = "idle"
    /\ metrics = NoRecord

\* scrape_page(url) has been called.
FetchInit ==
    /\ RestIdle
    /\ url \in Urls
    /\ goal = "cro"
    /\ page_speed = None
    /\ fpc = "start"
    /\ fetch_log = <<>>
    /\ jina_data = EmptyDict
    /\ raw_html = EmptyHtml
    /\ sig = EmptySignals
    /\ used = ""
    /\ fn = ""
    /\ ret = None
    /\ scores = NoScores
    /\ weighted = NoScores
    /\ mpc = "idle"
    /\ metrics = NoRecord

\* asyncio.gather has returned the results of scrape_page and of
\* get_pagespeed_score to an admitted request.
PageInit ==
    /\ RestIdle
    /\ \E pair \in PageResults :
        /\ jina_data = pair[1]
        /\ raw_html = pair[2]
    /\ url \in Urls
    /\ goal \in VALID_GOALS
    /\ page_speed \in {None, 0, 4, 5, 50, 72, MaxPageSpeed}
    /\ fpc = "returned"
    /\ fetch_log = <<>>
    /\ sig = EmptySignals
    /\ used = ""
    /\ fn = ""
    /\ ret = None
    /\ scores = NoScores
    /\ weighted = NoScores
    /\ mpc = "gathered"
    /\ metrics = NoRecord

Next == is_allowed \/ Tick

Spec == Init /\ [][Next]_vars

SpecStream == StreamInit /\ [][StreamNext]_vars

SpecReq == ReqInit /\ [][ReqNext]_vars

SpecAdmit == ReqInit /\ [][AdmitNext]_vars

SpecScore == ScoreInit /\ [][ScoreNext]_vars

SpecWeights == WeightsInit /\ [][call_apply_goal_weights]_vars

SpecExtract == ExtractInit /\ [][call_extract_signals]_vars

SpecFetch == FetchInit /\ [][FetchNext]_vars

SpecPage == PageInit /\ [][PageNext]_vars

\* ------------------------------------------------- RateLimiter properties
CeilSeconds(d) == (d + TicksPerSecond - 1) \div TicksPerSecond

IsReturn(c) == c.kind = "return"
IsAdmitted(c) == c.kind = "return" /\ c.allowed
IsDenied(c) == c.kind = "return" /\ ~c.allowed

\* Admitted calls of key k whose timestamp lies in the window (a - W, a]
AdmittedInWindow(k, a) ==
    {i \in DOMAIN calls[k] :
        /\ IsAdmitted(calls[k][i])
        /\ calls[k][i].at > a - WindowTicks
        /\ calls[k][i].at <= a}

\* Timestamps of key k that survive eviction at the current time, computed
\* from the stored list as a set of positions.
SurvivingPositions(k) ==
    {i \in DOMAIN store[k] : store[k][i] > now - WindowTicks}
OldestSurviving(k) ==
    CHOOSE x \in {store[k][i] : i \in SurvivingPositions(k)} :
        \A j \in SurvivingPositions(k) : x <= store[k][j]

Last(s) == s[Len(s)]
Called(k) == calls'[k] # calls[k]

\* C1: with max_requests = N >= 1, no W-second sliding window holds more
\* than N admitted calls of one key; from the empty state the first N calls
\* made within W seconds are all admitted and the (N+1)th call inside that
\* window is denied with retry_after >= 1.
C1_SlidingWindowCap ==
    max_requests >= 1 =>
        \A k \in Keys :
            /\ \A a \in 0..(MaxTime + 1) :
                   Cardinality(AdmittedInWindow(k, a)) <= max_requests
            /\ \A i \in DOMAIN calls[k] :
                   (calls[k][i].at - calls[k][1].at < WindowTicks) =>
                       /\ i <= max_requests => IsAdmitted(calls[k][i])
                       /\ i = max_requests + 1 =>
                              /\ IsDenied(calls[k][i])
                              /\ calls[k][i].retry_after >= 1

C1_Witness ==
    /\ max_requests = 2
    /\ \E k \in Keys :
        /\ Len(calls[k]) >= 3
        /\ calls[k][3].at - calls[k][1].at < WindowTicks
        /\ IsAdmitted(calls[k][2])
        /\ IsDenied(calls[k][3])

\* C2: is_allowed returns (True, 0) and appends the current timestamp iff
\* fewer than max_requests timestamps survive eviction; otherwise it returns
\* allowed = False.
C2_AllowedIffBelowCap ==
    [][\A k \in Keys : Called(k) =>
        LET c == Last(calls'[k])
            below == Cardinality(SurvivingPositions(k)) < max_requests
        IN /\ below <=> /\ IsAdmitted(c)
                        /\ c.retry_after = 0
                        /\ Len(store'[k]) = Cardinality(SurvivingPositions(k)) + 1
                        /\ Last(store'[k]) = now
           /\ ~below => IsDenied(c)]_vars

\* C3: a call denied at time t with retry_after = r is followed, when the
\* next call for that key comes at a time >= t + r, by an allowed call.
C3_RetryAfterSuffices ==
    \A k \in Keys : \A i \in DOMAIN calls[k] :
        (/\ i < Len(calls[k])
         /\ IsDenied(calls[k][i])
         /\ calls[k][i + 1].at >=
                calls[k][i].at + calls[k][i].retry_after * TicksPerSecond)
        => IsAdmitted(calls[k][i + 1])

C3_Witness ==
    \E k \in Keys : \E i \in DOMAIN calls[k] :
        /\ i < Len(calls[k])
        /\ IsDenied(calls[k][i])
        /\ calls[k][i + 1].at =
               calls[k][i].at + calls[k][i].retry_after * TicksPerSecond
        /\ IsAdmitted(calls[k][i + 1])

\* C4: a denial returns retry_after =
\* max(1, ceil(oldest_surviving_timestamp + window - now)), also when the
\* remaining time is a whole number of seconds.
C4_RetryAfterIsCeil ==
    [][\A k \in Keys : (Called(k) /\ IsDenied(Last(calls'[k]))) =>
        Last(calls'[k]).retry_after =
            Max(1, CeilSeconds(OldestSurviving(k) + WindowTicks - now))]_vars

\* C5: is_allowed never raises, and with max_requests <= 0 every call,
\* the first call for a never-seen key included, returns allowed = False.
C5_NeverRaises ==
    \A k \in Keys : \A i \in DOMAIN calls[k] :
        /\ IsReturn(calls[k][i])
        /\ max_requests <= 0 => ~calls[k][i].allowed

\* C27: a call is_allowed(key) leaves the lists of all other keys as they
\* were; a denied call stores no new timestamp, only the survivors of the
\* eviction; and after any call every timestamp stored for the key is
\* strictly newer than now - window and the list is in non-decreasing
\* order, the oldest first.
C27_IsAllowedFrame ==
    [][\A k \in Keys : Called(k) =>
        LET c == Last(calls'[k])
            stored == store'[k]
        IN /\ \A j \in Keys \ {k} : store'[j] = store[j]
           /\ IsDenied(c) =>
                /\ Len(stored) = Cardinality(SurvivingPositions(k))
                /\ \A i \in DOMAIN stored :
                    \E j \in SurvivingPositions(k) : store[k][j] = stored[i]
           /\ \A i \in DOMAIN stored : stored[i] > now - WindowTicks
           /\ \A i, j \in DOMAIN stored :
                i < j => stored[i] <= stored[j]]_vars

\* A key was admitted, denied, and admitted again once its first timestamp
\* had expired and was evicted, while another key holds a timestamp.
C27_Witness ==
    \E k, j \in Keys :
        /\ k # j
        /\ Len(calls[k]) >= 3
        /\ IsAdmitted(calls[k][1])
        /\ IsDenied(calls[k][2])
        /\ IsAdmitted(calls[k][3])
        /\ store[k] = <<calls[k][3].at>>
        /\ store[j] # <<>>

\* ------------------------------------------------------ stream properties
Records(s) == SelectSeq(trace[s], LAMBDA e : e.ev = "yield")
Generated(s) == SelectSeq(trace[s], LAMBDA e : e.ev = "groq")
\* An attempt fails: it raised, returned unparseable text, or returned an
\* empty or non-object JSON value.
Failed(o) == o.kind # "value" \/ ~o.truthy \/ ~o.isdict

\* C8: the stream is one "metrics" record followed by exactly one record of
\* type "ai_narrative" or "error"; nothing is emitted before the metrics
\* record and the generator is not invoked before it.
C8_MetricsThenOneNarrativeOrError ==
    \A s \in Streams :
        /\ Len(trace[s]) >= 1 => trace[s][1] = Yield("metrics")
        /\ Len(Records(s)) <= 2
        /\ Len(Records(s)) = 2 =>
               Records(s)[2].type \in {"ai_narrative", "error"}
        /\ spc[s] = "finished" => Len(Records(s)) = 2

\* C9: at most two generator calls per request, the second only when the
\* first did not yield a parsed result the stream can use (it raised, was
\* unparseable, or parsed to an empty or non-object value); attempt 1
\* unparseable and attempt 2 schema-conforming gives the records
\* metrics, ai_narrative and nothing else.
C9_TwoAttemptPolicy ==
    \A s \in Streams :
        /\ Len(Generated(s)) <= 2
        /\ Len(Generated(s)) = 2 => Failed(Generated(s)[1].out)
        /\ (/\ spc[s] = "finished"
            /\ Len(Generated(s)) >= 1
            /\ Generated(s)[1].out = Unparseable
            /\ Len(Generated(s)) = 2 => Generated(s)[2].out = ConformingObject)
           => /\ Len(Generated(s)) = 2
              /\ Records(s) = <<Yield("metrics"), Yield("ai_narrative")>>

C9_Witness ==
    \E s \in Streams :
        /\ spc[s] = "finished"
        /\ Len(Generated(s)) = 2
        /\ Generated(s)[1].out = Unparseable
        /\ Generated(s)[2].out = ConformingObject
        /\ Len(Records(s)) = 2

\* C10: whatever the generator does, no exception leaves the stream and the
\* metrics record stands; when both attempts fail the stream ends with
\* exactly one "error" record and no "ai_narrative" record.
C10_GeneratorFailuresContained ==
    \A s \in Streams :
        /\ spc[s] # "raised"
        /\ spc[s] # "start" =>
               /\ Len(Records(s)) >= 1
               /\ Records(s)[1] = Yield("metrics")
        /\ (/\ spc[s] = "finished"
            /\ Len(Generated(s)) = 2
            /\ Failed(Generated(s)[1].out)
            /\ Failed(Generated(s)[2].out))
           => Records(s) = <<Yield("metrics"), Yield("error")>>

C10_Witness ==
    \E s \in Streams :
        /\ spc[s] = "finished"
        /\ Len(Generated(s)) = 2
        /\ Generated(s)[1].out = RaisesError
        /\ Generated(s)[2].out = TruthyNonObject
        /\ Records(s) = <<Yield("metrics"), Yield("error")>>

\* --------------------------------------------------- request properties
IsAdmittedRequest(r, k) ==
    admit[r].kind = "return" /\ admit[r].allowed /\ admit[r].key = k
Occurrences(ts, t) == Cardinality({i \in DOMAIN ts : ts[i] = t})

\* C6: with admission checks of several in-flight requests for one key, no
\* admission is lost or counted twice: the stored list of the key holds one
\* entry per admitted request still inside the window, and no window holds
\* more than max_requests admitted requests.
C6_ConcurrentAdmissionsExact ==
    \A k \in Keys :
        /\ \A t \in 0..now :
               t > now - WindowTicks =>
                   Occurrences(store[k], t) =
                       Cardinality({r \in Requests :
                           IsAdmittedRequest(r, k) /\ admit[r].at = t})
        /\ \A a \in 0..now :
               Cardinality({r \in Requests :
                   /\ IsAdmittedRequest(r, k)
                   /\ admit[r].at > a - WindowTicks
                   /\ admit[r].at <= a}) <= max_requests

C6_Witness ==
    \E k \in Keys : \E r1, r2 \in Requests :
        /\ r1 # r2
        /\ rpc[r1] = "gather" /\ rpc[r2] = "gather"
        /\ IsAdmittedRequest(r1, k) /\ IsAdmittedRequest(r2, k)
        /\ admit[r2].at - admit[r1].at < WindowTicks
        /\ admit[r2].at >= admit[r1].at
        /\ Len(store[k]) = 2

\* C7: any two consecutive GETs of scrape_via_jina, over all requests and
\* pool threads, are issued at least _JINA_MIN_INTERVAL seconds apart.
C7_JinaCallsSpaced ==
    \A i \in DOMAIN jina_gets :
        i < Len(jina_gets) =>
            jina_gets[i + 1] - jina_gets[i] >= JinaIntervalTicks

\* C21: within one request scrape_page and get_pagespeed_score are both
\* handed to the executor by the same step of the handler, each of them can
\* run to its end whatever the position of the other, and the handler goes
\* on to extraction and scoring only after both have completed.
C21_FetchAndMeasurementJoined ==
    \A r \in Requests :
        /\ tpc[r] = "idle" <=> ppc[r] = "idle"
        /\ tpc[r] # "idle" => rpc[r] \in {"gather", "streaming"}
        /\ tpc[r] = "queued" => ENABLED scrape_page_job(r)
        /\ ppc[r] = "queued" => ENABLED get_pagespeed_score(r)
        /\ rpc[r] = "gather" => ~(tpc[r] = "idle")
        /\ rpc[r] = "streaming" => tpc[r] = "done" /\ ppc[r] = "done"

\* One request went past the gather with both jobs done while, in another,
\* the measurement has finished before the fetch.
C21_Witness ==
    \E r1, r2 \in Requests :
        /\ rpc[r1] = "streaming" /\ tpc[r1] = "done" /\ ppc[r1] = "done"
        /\ rpc[r2] = "gather" /\ tpc[r2] = "queued" /\ ppc[r2] = "done"

\* C22: a request whose admission check returns a denial is answered 429
\* with Retry-After equal to the retry_after the limiter computed for that
\* check, no job is handed to the executor for it, and it stays answered:
\* no fetch, no measurement, no scoring and no stream follow.
C22_DeniedFailsFast ==
    [][\A r \in Requests :
        /\ (/\ rpc[r] = "new"
            /\ rpc'[r] # "new"
            /\ admit'[r].kind = "return"
            /\ ~admit'[r].allowed) =>
                LET out == IsAllowedOutcome(store[admit'[r].key], now) IN
                /\ rpc'[r] = "rejected429"
                /\ ~out.allowed
                /\ admit'[r].retry_after = out.retry_after
                /\ admit'[r].header = ToString(out.retry_after)
                /\ tpc'[r] = "idle" /\ ppc'[r] = "idle"
        /\ rpc[r] = "rejected429" =>
                /\ rpc'[r] = "rejected429"
                /\ admit'[r] = admit[r]
                /\ tpc'[r] = "idle" /\ ppc'[r] = "idle"]_vars

\* A request was denied with a retry_after that differs from the window,
\* after another request of the same key had been admitted.
C22_Witness ==
    \E r1, r2 \in Requests :
        /\ rpc[r1] = "rejected429"
        /\ admit[r1].header = ToString(admit[r1].retry_after)
        /\ admit[r1].retry_after # window
        /\ admit[r1].retry_after >= 1
        /\ tpc[r1] = "idle" /\ ppc[r1] = "idle"
        /\ IsAdmittedRequest(r2, admit[r1].key)
        /\ rpc[r2] = "streaming"

\* ---------------------------------------------------- scoring properties
\* C11: every scoring function returns an integer in [5,100] for any
\* input: any PageSignals (the empty one included), any goal, and any
\* external performance measurement of 0..100 or none.
C11_ScoresInRange ==
    fn \in Dimensions => ret \in 5..100

\* The signals with everything reset but the viewport flag, the viewport
\* directive and the responsive keywords of the page text
ViewportOnly(s) ==
    [EmptySignals EXCEPT
        !.has_viewport = s.has_viewport,
        !.viewport_content = s.viewport_content,
        !.page_text.hits = s.page_text.hits \cap {"responsive"}]

\* C14: with an external measurement p, score_mobile_readiness(signals, p)
\* is p verbatim whatever the signals; without one the score depends only
\* on the viewport flag, the viewport directive and the responsive
\* keywords of the page text.
C14_MobileReadinessVerbatim ==
    fn = "mobile_readiness" =>
        /\ page_speed # None => ret = page_speed
        /\ page_speed = None =>
            ret = ViewportScore(ViewportOnly(sig))

\* A measurement below the clamp floor was passed through for signals
\* other than the empty ones.
C14_Witness ==
    /\ fn = "mobile_readiness"
    /\ page_speed \in 0..4
    /\ ret = page_speed
    /\ sig = RichSignals

\* C24: for every URL the request validator accepts, which takes the
\* scheme in any letter case, score_https_ssl is 90 when the scheme is
\* https and 10 when it is http.
C24_HttpsScoreAnyCase ==
    fn = "https_ssl" =>
        ret = IF Lower(url.scheme) = "https" THEN 90 ELSE 10

\* C26: signals whose primary heading is a sentinel, "No H1 Found" of
\* either parser or "No Content" of the empty fallback, get no
\* primary-heading credit from score_heading_hierarchy and none from
\* score_semantic_authority: they score as the same signals without a
\* heading do.
C26_SentinelHeadingNoCredit ==
    (/\ fn \in {"heading_hierarchy", "semantic_authority"}
     /\ sig.h1.s \in {"No H1 Found", "No Content"}) =>
        ret = ScoreOf(fn, [sig EXCEPT !.h1 = EmptyText], goal, page_speed, url)

\* C12: every value of the scores mapping of the emitted "metrics" record,
\* after the goal weighting, page_speed and a measured mobile_readiness
\* included, is an integer in [5,100]; 0 is never emitted.
C12_EmittedScoresInRange ==
    metrics.type = "metrics" =>
        \A d \in DOMAIN metrics.scores : metrics.scores[d] \in 5..100

\* C13: for every known goal, the goals whose table lists mobile_readiness
\* included, a mobile_readiness score backed by an external measurement
\* has the same value after apply_goal_weights as before it.
C13_MeasuredMobileReadinessKept ==
    (mpc \in {"scored", "streaming"} /\ page_speed # None) =>
        weighted["mobile_readiness"] = scores["mobile_readiness"]

\* C15: apply_goal_weights(scores, goal) returns a mapping equal to scores
\* when the goal has no weight table; with a table, every dimension the
\* table does not list keeps its value; and in both cases the result has
\* exactly the dimension names of the input.
C15_WeightingFrame ==
    fn = "apply_goal_weights" =>
        /\ goal \notin DOMAIN GOAL_WEIGHTS => weighted = scores
        /\ DOMAIN weighted = DOMAIN scores
        /\ goal \in DOMAIN GOAL_WEIGHTS =>
            \A d \in DOMAIN scores :
                d \notin DOMAIN GOAL_WEIGHTS[goal]
                    => weighted[d] = scores[d]

\* A goal with a table was applied to a mapping that holds page_speed and
\* dimensions the table does not list, and it changed a listed dimension.
C15_Witness ==
    /\ fn = "apply_goal_weights"
    /\ goal = "cro"
    /\ DOMAIN scores = Dimensions \cup {"page_speed"}
    /\ scores["image_alt_text"] = 50
    /\ weighted["image_alt_text"] = 50
    /\ weighted["conversion_intent"] # scores["conversion_intent"]

\* C23: when scrape_page returns {} and "" the request goes on: sig is the
\* empty PageSignals, the scores dict holds what each of the sixteen
\* scoring functions returns for it, and the first record of the stream is
\* a "metrics" record with every fixed dimension; a fetch that brought
\* thin content also ends in such a record.
C23_EmptyFetchStillScored ==
    /\ (mpc \in {"scored", "streaming"} /\ jina_data.empty /\ raw_html.empty) =>
        /\ sig = EmptySignals
        /\ \A d \in Dimensions :
            /\ d \in DOMAIN scores
            /\ scores[d] = ScoreOf(d, EmptySignals, goal, page_speed, url)
    /\ mpc = "streaming" =>
        /\ metrics.type = "metrics"
        /\ Dimensions \subseteq DOMAIN metrics.scores
        /\ metrics.scores = apply_goal_weights(scores, goal)

\* Both strategies came back empty and the metrics record was yielded.
C23_Witness ==
    /\ mpc = "streaming"
    /\ jina_data = EmptyDict
    /\ raw_html = EmptyHtml
    /\ sig.h1 = NoContent
    /\ metrics.type = "metrics"
    /\ DOMAIN metrics.scores = Dimensions
    /\ metrics.scores["content_depth"] >= 5

\* C25: for a page with a structured-data block, one primary heading,
\* three secondary headings and a meta description of 140 characters,
\* served over https, the emitted semantic_authority and schema_markup are
\* both at least 80 and the emitted https_ssl is 90, for every valid goal.
C25_ScenarioBHighBand ==
    LET block == IF used = "html" THEN raw_html.ld_json
                 ELSE "schema" \in jina_data.content.text.hits
        h1s == IF used = "html" THEN (IF raw_html.h1.present THEN 1 ELSE 0)
               ELSE Len(jina_data.content.h1_lines)
        h2_count == IF used = "html" THEN raw_html.h2s
                    ELSE jina_data.content.h2_lines
        meta_len == IF used = "html" THEN raw_html.meta.n
                    ELSE jina_data.description.n
    IN (/\ mpc = "streaming"
        /\ used \in {"jina", "html"}
        /\ goal \in VALID_GOALS
        /\ url.scheme = "https"
        /\ block /\ h1s = 1 /\ h2_count = 3 /\ meta_len = 140) =>
            /\ metrics.scores["semantic_authority"] >= 80
            /\ metrics.scores["schema_markup"] >= 80
            /\ metrics.scores["https_ssl"] = 90

\* C28: for a page with k >= 1 images that all carry a non-empty alt text,
\* extraction followed by score_image_alt_text gives 90 for every k; a
\* page without images scores 50.
C28_AltCoverageTopTier ==
    (mpc \in {"scored", "streaming"} /\ used \in {"jina", "html"}) =>
        LET img == IF used = "html" THEN raw_html.images
                   ELSE jina_data.images
        IN /\ (img.count >= 1 /\ img.alts = img.count) =>
                scores["image_alt_text"] = 90
           /\ img.count = 0 => scores["image_alt_text"] = 50

\* ------------------------------------------------- extraction properties
\* The first first-level heading of the representation sig was built from
\* (Absent when it has none), and the title it declares
FirstH1 ==
    IF used = "html" THEN raw_html.h1
    ELSE IF Len(jina_data.content.h1_lines) > 0
         THEN jina_data.content.h1_lines[1]
    ELSE Absent
DeclaredTitle == IF used = "html" THEN raw_html.title ELSE jina_data.title

\* C16: extract_signals builds its result from the representation with the
\* larger word count (50 primary words against 500 or 1000 fallback words
\* selects the fallback, and the body excerpt then comes from the fallback
\* only); with one representation empty and the other populated it uses
\* the populated one; with both empty it returns exactly the empty
\* PageSignals, whose heading is "No Content".
C16_RicherRepresentationWins ==
    fn = "extract_signals" =>
        /\ (~raw_html.empty /\ raw_html.tokens > JinaWords(jina_data)) =>
            /\ used = "html"
            /\ sig = _signals_from_html(raw_html)
            /\ sig.body_copy.src \in {"html", ""}
            /\ sig.page_text.src = "html"
        /\ (~jina_data.empty /\ JinaWords(jina_data) > raw_html.tokens) =>
            /\ used = "jina"
            /\ sig = SignalsFromJina(jina_data)
            /\ sig.body_copy.src \in {"jina", ""}
        /\ (jina_data.empty /\ ~raw_html.empty) => used = "html"
        /\ (~jina_data.empty /\ raw_html.empty) => used = "jina"
        /\ (jina_data.empty /\ raw_html.empty) =>
            /\ sig = EmptySignals
            /\ sig.h1.s = "No Content"

\* 50 primary words against 1000 fallback words: the body excerpt is the
\* fallback's.
C16_Witness ==
    /\ fn = "extract_signals"
    /\ JinaWords(jina_data) = 50
    /\ jina_data.content.body.src = "jina"
    /\ raw_html.tokens = 1000
    /\ used = "html"
    /\ sig.body_copy.src = "html"

\* C19: in every PageSignals built from a representation, by either
\* parser, the primary heading is the first first-level heading when there
\* is one, otherwise the declared title when there is one, and the
\* sentinel "No H1 Found" only when there is neither.
C19_PrimaryHeadingFallback ==
    (fn = "extract_signals" /\ used \in {"jina", "html"}) =>
        sig.h1 = IF FirstH1.present THEN Truncate(FirstH1, 120)
                 ELSE IF DeclaredTitle.present /\ DeclaredTitle.n > 0
                      THEN Truncate(DeclaredTitle, 120)
                 ELSE NoH1Found

\* C20: in every PageSignals built from a representation the title is the
\* declared title when that is present and longer than 5 characters, and
\* the primary heading in every other case.
C20_TitleOrHeading ==
    (fn = "extract_signals" /\ used \in {"jina", "html"}) =>
        sig.title = IF DeclaredTitle.present /\ DeclaredTitle.n > 5
                    THEN Truncate(DeclaredTitle, 120)
                    ELSE sig.h1

\* ------------------------------------------------------ fetch properties
\* The positions in fetch_log of the retrievals of a strategy
RetrievalsOf(strategy) ==
    {i \in 1..Len(fetch_log) : fetch_log[i].strategy = strategy}

C18_FetchNeverRaises ==
    /\ fpc # "raised"
    /\ \A i \in 1..Len(fetch_log) :
        fetch_log[i].outcome \in
            {"timeout", "transport_error", "status_429", "status_403",
             "status_500"}
        => fetch_log[i].result.empty

====
